---- MODULE Spec2Model ----
(***************************************************************************)
(* DataTableFilter (src/package/src/components/DataTableFilter/            *)
(* DataTableFilter.js): a controlled filter widget.  The host owns the     *)
(* `value` and `onSelect` props and re-renders the component; the          *)
(* component owns the `open` flag, the anchor ref and the memoized         *)
(* handleCheckboxChange callback (useCallback with dependencies            *)
(* [onSelect]).                                                            *)
(*                                                                         *)
(* A JavaScript value is modelled as a record [tag, s]: undefined, null,   *)
(* a scalar (s holds the one string) or an array (s holds its entries).    *)
(* Option values are strings, as event.target.value is.                    *)
(***************************************************************************)
EXTENDS Integers, Sequences, FiniteSets, TLC

\* Longest array the host supplies as the `value` prop.
MaxLen == 2
\* Interaction events (toggle, choose, clear) followed in one run.
MaxEvents == 3

VARIABLES
  isMulti,        \* props.isMulti (line 43)
  container,      \* props.container (line 46)
  value,          \* props.value of the latest render (line 48)
  onSelect,       \* identity of the props.onSelect function of the latest render (line 44)
  memoValue,      \* the `value` the memoized handleCheckboxChange closes over (line 78)
  open,           \* React.useState(false) (line 53)
  anchorAttached, \* whether anchorRef.current holds a node (line 54, 181)
  calls,          \* number of onSelect invocations so far
  lastEmitted,    \* the argument of the latest onSelect invocation
  lastEvent,      \* the event handled last
  expect,         \* net ON/OFF history of the toggles, most recently turned ON first
  controlled,     \* the run so far: multi-select, started empty, host re-supplied every emitted value
  changes         \* number of toggle/choose events whose notification differed from props.value, plus clear events

vars == <<isMulti, container, value, onSelect, memoValue, open, anchorAttached,
          calls, lastEmitted, lastEvent, expect, controlled, changes>>

------------------------------------------------------------------------------
\* JavaScript values

Undefined == [tag |-> "undefined", s |-> <<>>]
Null == [tag |-> "null", s |-> <<>>]
Scalar(v) == [tag |-> "scalar", s |-> <<v>>]
Array(s) == [tag |-> "array", s |-> s]

\* The option catalog (props.options): label, value, isDisabled.
Options ==
  << [label |-> "a", value |-> "A", isDisabled |-> FALSE],
     [label |-> "b", value |-> "B", isDisabled |-> FALSE],
     [label |-> "d", value |-> "D", isDisabled |-> TRUE] >>

OptionValues == { Options[i].value : i \in 1..Len(Options) }

IsDisabled(v) == \E i \in 1..Len(Options) : Options[i].value = v /\ Options[i].isDisabled

Range(s) == { s[i] : i \in 1..Len(s) }

SeqsUpTo(n) == UNION { [1..k -> OptionValues] : k \in 0..n }

\* Every `value` the host can supply (PropTypes.any).
HostValues ==
  {Undefined, Null} \cup { Scalar(v) : v \in OptionValues }
                    \cup { Array(s) : s \in SeqsUpTo(MaxLen) }

\* The identities of the functions the host passes as onSelect.
OnSelectIds == {1, 2}

Containers == {"default", "card"}

\* Array.isArray(value)
IsArray(x) == x.tag = "array"

\* values.filter((item) => item !== controlValue)
Filter(values, controlValue) == SelectSeq(values, LAMBDA item : item # controlValue)

\* [...new Set(items)]: first occurrences, in insertion order
RECURSIVE SetSpread(_)
SetSpread(items) ==
  IF items = <<>> THEN <<>>
  ELSE <<Head(items)>> \o SetSpread(Filter(Tail(items), Head(items)))

\* const values = Array.isArray(value) ? value : [];
ValuesOf(x) == IF IsArray(x) THEN x.s ELSE <<>>

\* The body of handleCheckboxChange: the array passed to onSelect.
SelectedValues(closedValue, controlValue, checked) ==
  IF checked = FALSE
    THEN Filter(ValuesOf(closedValue), controlValue)
    ELSE SetSpread(<<controlValue>> \o ValuesOf(closedValue))

NoEvent == [kind |-> "none", target |-> "", checked |-> FALSE, inAnchor |-> FALSE]
Event(k, t, c, a) == [kind |-> k, target |-> t, checked |-> c, inAnchor |-> a]

\* The host has supplied the value emitted last (or nothing was emitted yet).
Synced == calls = 0 \/ value = lastEmitted

\* The net ON/OFF history after one more toggle.
ExpectAfter(e, v, checked) ==
  IF checked THEN <<v>> \o Filter(e, v) ELSE Filter(e, v)

\* 1 when the notification differs from the current props.value, else 0.
Changed(notified) == IF notified # value THEN 1 ELSE 0

------------------------------------------------------------------------------
\* Construction: the first render.

Init ==
  /\ isMulti \in BOOLEAN
  /\ container \in Containers
  /\ value \in HostValues
  /\ onSelect = 1
  /\ memoValue = value
  /\ open = FALSE
  /\ anchorAttached \in (IF container = "default" THEN BOOLEAN ELSE {FALSE})
  /\ calls = 0
  /\ lastEmitted = Undefined
  /\ lastEvent = NoEvent
  /\ expect = <<>>
  /\ controlled = (isMulti /\ value = Array(<<>>))
  /\ changes = 0

\* The values the host supplies on a re-render: the one it supplied before or
\* the one it was notified of last.
Resupplied == {value} \cup (IF calls > 0 THEN {lastEmitted} ELSE {})

\* A re-render that notifies the host of the value it renders.
RenderNotifying(newValue, newOnSelect) ==
  /\ calls < MaxEvents
  /\ value' = newValue
  /\ onSelect' = newOnSelect
  /\ memoValue' = IF newOnSelect # onSelect THEN newValue ELSE memoValue
  /\ controlled' = (controlled /\ newValue = (IF calls = 0 THEN value ELSE lastEmitted))
  /\ expect' = IF controlled' THEN expect ELSE <<>>
  /\ calls' = calls + 1
  /\ lastEmitted' = newValue
  /\ UNCHANGED <<isMulti, container, open, anchorAttached, lastEvent, changes>>

\* A re-render with the props the host supplies; useCallback keeps the
\* memoized callback unless onSelect changed.
Render(newValue, newOnSelect) ==
  /\ value' = newValue
  /\ onSelect' = newOnSelect
  /\ memoValue' = IF newOnSelect # onSelect THEN newValue ELSE memoValue
  /\ controlled' = (controlled /\ newValue = (IF calls = 0 THEN value ELSE lastEmitted))
  /\ expect' = IF controlled' THEN expect ELSE <<>>
  /\ UNCHANGED <<isMulti, container, open, anchorAttached, calls, lastEmitted,
                 lastEvent, changes>>

\* handleToggle, the anchor button's onClick (default container only)
HandleToggle ==
  /\ container = "default"
  /\ open' = ~open
  /\ lastEvent' = Event("toggleOpen", "", FALSE, FALSE)
  /\ UNCHANGED <<isMulti, container, value, onSelect, memoValue, anchorAttached,
                 calls, lastEmitted, expect, controlled, changes>>

\* handleClose without the anchor check of lines 70-72.
HandleCloseUnguarded(inAnchor) ==
  /\ container = "default"
  /\ open' = FALSE
  /\ lastEvent' = Event("close", "", FALSE, inAnchor)
  /\ UNCHANGED <<isMulti, container, value, onSelect, memoValue, anchorAttached,
                 calls, lastEmitted, expect, controlled, changes>>

\* handleClose, the Menu's onClose (default container only)
HandleClose(inAnchor) ==
  /\ container = "default"
  /\ IF anchorAttached /\ inAnchor
       THEN open' = open
       ELSE open' = FALSE
  /\ lastEvent' = Event("close", "", FALSE, inAnchor)
  /\ UNCHANGED <<isMulti, container, value, onSelect, memoValue, anchorAttached,
                 calls, lastEmitted, expect, controlled, changes>>

\* handleCheckboxChange, the onChange of every checkbox (multi mode)
HandleCheckboxChange(v, checked) ==
  /\ isMulti
  /\ calls < MaxEvents
  /\ calls' = calls + 1
  /\ lastEmitted' = Array(SelectedValues(memoValue, v, checked))
  /\ lastEvent' = Event("toggle", v, checked, FALSE)
  /\ controlled' = (controlled /\ ~IsDisabled(v) /\ Synced)
  /\ expect' = IF controlled' THEN ExpectAfter(expect, v, checked) ELSE <<>>
  /\ changes' = changes + Changed(lastEmitted')
  /\ UNCHANGED <<isMulti, container, value, onSelect, memoValue, open,
                 anchorAttached>>

\* A RadioGroup onChange that adds the chosen value to the current ones.
RadioGroupOnChangeAppending(v) ==
  /\ ~isMulti
  /\ calls < MaxEvents
  /\ calls' = calls + 1
  /\ lastEmitted' = Array(<<v>> \o ValuesOf(value))
  /\ lastEvent' = Event("choose", v, TRUE, FALSE)
  /\ changes' = changes + Changed(lastEmitted')
  /\ UNCHANGED <<isMulti, container, value, onSelect, memoValue, open,
                 anchorAttached, expect, controlled>>

\* The RadioGroup's onChange (single mode)
RadioGroupOnChange(v) ==
  /\ ~isMulti
  /\ calls < MaxEvents
  /\ calls' = calls + 1
  /\ lastEmitted' = Scalar(v)
  /\ lastEvent' = Event("choose", v, TRUE, FALSE)
  /\ changes' = changes + Changed(lastEmitted')
  /\ UNCHANGED <<isMulti, container, value, onSelect, memoValue, open,
                 anchorAttached, expect, controlled>>

\* A "Clear all" that notifies the empty selection of the mode.
ClearAllEmpty ==
  /\ container = "card"
  /\ calls < MaxEvents
  /\ calls' = calls + 1
  /\ lastEmitted' = IF isMulti THEN Array(<<>>) ELSE Null
  /\ lastEvent' = Event("clear", "", FALSE, FALSE)
  /\ controlled' = FALSE
  /\ expect' = <<>>
  /\ changes' = changes + 1
  /\ UNCHANGED <<isMulti, container, value, onSelect, memoValue, open,
                 anchorAttached>>

\* The "Clear all" button's onClick (card container)
ClearAll ==
  /\ container = "card"
  /\ calls < MaxEvents
  /\ calls' = calls + 1
  /\ lastEmitted' = Null
  /\ lastEvent' = Event("clear", "", FALSE, FALSE)
  /\ controlled' = FALSE
  /\ expect' = <<>>
  /\ changes' = changes + 1
  /\ UNCHANGED <<isMulti, container, value, onSelect, memoValue, open,
                 anchorAttached>>

\* A "Clear" that also closes the menu.
ClearMenuClosing ==
  /\ container = "default"
  /\ calls < MaxEvents
  /\ calls' = calls + 1
  /\ lastEmitted' = Null
  /\ lastEvent' = Event("clear", "", FALSE, FALSE)
  /\ controlled' = FALSE
  /\ expect' = <<>>
  /\ changes' = changes + 1
  /\ open' = FALSE
  /\ UNCHANGED <<isMulti, container, value, onSelect, memoValue, anchorAttached>>

\* The "Clear" button's onClick (default container, inside the Menu)
ClearMenu ==
  /\ container = "default"
  /\ calls < MaxEvents
  /\ calls' = calls + 1
  /\ lastEmitted' = Null
  /\ lastEvent' = Event("clear", "", FALSE, FALSE)
  /\ controlled' = FALSE
  /\ expect' = <<>>
  /\ changes' = changes + 1
  /\ UNCHANGED <<isMulti, container, value, onSelect, memoValue, open,
                 anchorAttached>>

\* Every event the handlers accept, whatever the rendered controls would fire.
Next ==
  \/ \E nv \in Resupplied, f \in OnSelectIds : Render(nv, f)
  \/ HandleToggle
  \/ \E a \in BOOLEAN : HandleClose(a)
  \/ \E v \in OptionValues, c \in BOOLEAN : HandleCheckboxChange(v, c)
  \/ \E v \in OptionValues : RadioGroupOnChange(v)
  \/ ClearAll
  \/ ClearMenu

Spec == Init /\ [][Next]_vars

------------------------------------------------------------------------------
\* The events the rendered controls fire.

\* checked={Array.isArray(value) && value.includes(optionValue)}
CheckboxChecked(v) == IsArray(value) /\ v \in Range(value.s)

\* <RadioGroup value={value || ""}>: the radio of v is the checked one
RadioChecked(v) == value = Scalar(v)

\* The menu items are shown while the Menu is open; the card shows them always.
ItemsShown == container = "card" \/ open

\* A click on the checkbox of a non-disabled option flips its checked state.
CheckboxClick(v) ==
  /\ ItemsShown
  /\ ~IsDisabled(v)
  /\ HandleCheckboxChange(v, ~CheckboxChecked(v))

\* A click on the radio of a non-disabled option that is not the checked one.
RadioClick(v) ==
  /\ ItemsShown
  /\ ~IsDisabled(v)
  /\ ~RadioChecked(v)
  /\ RadioGroupOnChange(v)

ClearMenuClick == ItemsShown /\ ClearMenu

\* The Menu asks to close only while it is open.
MenuClose(inAnchor) == open /\ HandleClose(inAnchor)

NextRendered ==
  \/ \E nv \in Resupplied, f \in OnSelectIds : Render(nv, f)
  \/ HandleToggle
  \/ \E a \in BOOLEAN : MenuClose(a)
  \/ \E v \in OptionValues : CheckboxClick(v)
  \/ \E v \in OptionValues : RadioClick(v)
  \/ ClearAll
  \/ ClearMenuClick

SpecRendered == Init /\ [][NextRendered]_vars

------------------------------------------------------------------------------
\* Properties

NoDuplicates(seq) == \A i, j \in 1..Len(seq) : seq[i] = seq[j] => i = j

Interactions == {"toggle", "choose"}

\* C1: in multi-select mode, starting from the empty selection with a host that
\* re-supplies every notified value, the value notified by a toggle has no
\* duplicates and is the net ON/OFF history, most recently turned ON first -
\* also for a host that passes the same onSelect function on every render.
C1_NetHistory ==
  (controlled /\ lastEvent.kind = "toggle")
    => (lastEmitted = Array(expect) /\ NoDuplicates(lastEmitted.s))

\* C2: in multi-select mode, whatever the current value (an array holding an
\* entry twice included) and whatever the toggle, the notified value holds no
\* entry more than once.
C2_NoDuplicates ==
  (isMulti /\ lastEvent.kind = "toggle") => NoDuplicates(lastEmitted.s)

\* C3: an interaction event whose target is a disabled option invokes onSelect
\* zero times, whatever is forwarded to the change handlers.
C3_DisabledSilent ==
  [][(lastEvent'.kind \in Interactions /\ IsDisabled(lastEvent'.target))
       => calls' = calls]_vars

\* C4 as stated: after a close-request the state is Closed, whatever the
\* event's target is.
C4_CloseAlwaysCloses == lastEvent.kind = "close" => open = FALSE

\* C4 as amended: a close-request leaves the state Closed unless
\* anchorRef.current holds a node containing the event's target, and then it
\* leaves the open state as it was; a close-request while Closed leaves Closed.
C4_CloseOutsideAnchor ==
  [][lastEvent'.kind = "close"
       => /\ (anchorAttached /\ lastEvent'.inAnchor) => open' = open
          /\ ~(anchorAttached /\ lastEvent'.inAnchor) => open' = FALSE
          /\ ~open => ~open']_vars

\* A close-request from inside the anchor button arrived while Open.
C4_Witness ==
  /\ lastEvent.kind = "close"
  /\ lastEvent.inAnchor
  /\ anchorAttached
  /\ open

\* C5: a clear event notifies exactly null, in both modes and both containers,
\* whatever the prior value.
C5_ClearYieldsNull == lastEvent.kind = "clear" => lastEmitted = Null

\* Multi-select card with a non-empty selection, cleared.
C5_Witness ==
  /\ lastEvent.kind = "clear"
  /\ isMulti
  /\ container = "card"
  /\ IsArray(value) /\ value.s # <<>>
  /\ lastEmitted = Null

C7_ChooseReplaces ==
  (~isMulti /\ calls > 0)
    => /\ lastEmitted.tag \in {"scalar", "null"}
       /\ lastEvent.kind = "choose" => lastEmitted = Scalar(lastEvent.target)
       /\ lastEvent.kind = "clear" => lastEmitted = Null

\* A is chosen and re-supplied, then B is chosen.
C7_Witness ==
  /\ ~isMulti
  /\ calls = 2
  /\ value = Scalar("A")
  /\ lastEvent = Event("choose", "B", TRUE, FALSE)
  /\ lastEmitted = Scalar("B")

\* C8: in multi-select mode, toggling a non-disabled v ON while the current
\* value is a duplicate-free sequence S notifies v followed by the entries of
\* S other than v, in their order.
C8_ToggleOnPrepends ==
  [][(/\ calls' = calls + 1
      /\ lastEvent'.kind = "toggle"
      /\ lastEvent'.checked
      /\ ~IsDisabled(lastEvent'.target)
      /\ IsArray(value)
      /\ NoDuplicates(value.s))
       => lastEmitted' = Array(<<lastEvent'.target>> \o Filter(value.s, lastEvent'.target))]_vars

\* C9: in multi-select mode, a toggle while the current value is not a
\* sequence notifies [v] when ON and [] when OFF.
C9_NonSequenceAsEmpty ==
  [][(/\ calls' = calls + 1
      /\ lastEvent'.kind = "toggle"
      /\ ~IsArray(value))
       => lastEmitted' = Array(IF lastEvent'.checked THEN <<lastEvent'.target>> ELSE <<>>)]_vars

\* C10: the open state starts Closed; a step that notifies leaves it
\* unchanged; it changes only by handleToggle (flip) and handleClose (to
\* Closed), and those steps change neither the value nor the notifications.
C10_OpenIndependent ==
  /\ open = FALSE
  /\ [][/\ calls' # calls => open' = open
        /\ open' # open
             => /\ lastEvent'.kind \in {"toggleOpen", "close"}
                /\ lastEvent'.kind = "close" => open' = FALSE
                /\ value' = value
                /\ memoValue' = memoValue
                /\ calls' = calls
                /\ lastEmitted' = lastEmitted]_vars

\* The selection was cleared while the menu was open, and the menu is open.
C10_Witness ==
  /\ open
  /\ lastEvent.kind = "clear"
  /\ container = "default"

====
